---- MODULE Spec2Model ----
(***************************************************************************)
(* Model of the shopfloor assistant's two rule-based components:           *)
(*   IntentClassifier  (src/src/intent_classifier.py)                       *)
(*   SafetyGuardrails  (src/src/safety_guardrails.py)                       *)
(*                                                                         *)
(* A Python str is a sequence of one-character strings, so that substring  *)
(* containment (`kw in text`), lower(), split() and concatenation are      *)
(* computed rather than assumed.  Optional[T] is a sequence of length at    *)
(* most one: None is <<>>, a present value x is <<x>>.                      *)
(***************************************************************************)
EXTENDS Integers, Sequences, FiniteSets, TLC

(* ----------------------------- bounds ---------------------------------- *)

\* longest query handed to classify, in phrases of QueryPhrases
MaxQueryPhrases == 3

\* longest response handed to check_safety / sanitize_response, in words of
\* ResponseWords
MaxResponseWords == 2

(* ------------------------ Python primitives ---------------------------- *)

None == <<>>

Some(x) == <<x>>

UpperAlpha ==
    <<"A","B","C","D","E","F","G","H","I","J","K","L","M",
      "N","O","P","Q","R","S","T","U","V","W","X","Y","Z">>

LowerAlpha ==
    <<"a","b","c","d","e","f","g","h","i","j","k","l","m",
      "n","o","p","q","r","s","t","u","v","w","x","y","z">>

Digits == {"0","1","2","3","4","5","6","7","8","9"}

Whitespace == {" ", "\n", "\t"}

\* str.lower() on one character
LowerChar(c) ==
    IF \E i \in 1..Len(UpperAlpha) : UpperAlpha[i] = c
    THEN LowerAlpha[CHOOSE i \in 1..Len(UpperAlpha) : UpperAlpha[i] = c]
    ELSE c

\* str.lower()
lower(s) == [i \in 1..Len(s) |-> LowerChar(s[i])]

\* `kw in text` on two str
Contains(kw, text) ==
    \E i \in 1..(Len(text) - Len(kw) + 1) :
        \A j \in 1..Len(kw) : text[i + j - 1] = kw[j]

\* any(c.isdigit() for c in word)
HasDigit(word) == \E i \in 1..Len(word) : word[i] \in Digits

RECURSIVE SplitFrom(_, _, _, _)
SplitFrom(text, i, cur, acc) ==
    IF i > Len(text)
    THEN IF cur = <<>> THEN acc ELSE Append(acc, cur)
    ELSE IF text[i] \in Whitespace
         THEN SplitFrom(text, i + 1, <<>>,
                        IF cur = <<>> THEN acc ELSE Append(acc, cur))
         ELSE SplitFrom(text, i + 1, Append(cur, text[i]), acc)

\* str.split(): the maximal runs of non-whitespace characters, in order
split(text) == SplitFrom(text, 1, <<>>, <<>>)

RECURSIVE SumOver(_, _, _)
SumOver(f, order, i) ==
    IF i > Len(order) THEN 0 ELSE f[order[i]] + SumOver(f, order, i + 1)

Max2(a, b) == IF a >= b THEN a ELSE b

(* ------------------------ configuration tables ------------------------- *)

\* self.intent_patterns[ManufacturingIntent.SOP_LOOKUP]
Patterns_SOP_LOOKUP ==
    << <<"s","h","o","w">>,
       <<"p","r","o","c","e","d","u","r","e">>,
       <<"s","t","e","p","s">>,
       <<"h","o","w"," ","t","o">>,
       <<"i","n","s","t","r","u","c","t","i","o","n","s">>,
       <<"c","h","a","n","g","e","o","v","e","r">>,
       <<"s","e","t","u","p">>,
       <<"o","p","e","r","a","t","i","o","n">>,
       <<"g","u","i","d","e">> >>

\* self.intent_patterns[ManufacturingIntent.PRODUCTION_STATUS]
Patterns_PRODUCTION_STATUS ==
    << <<"s","t","a","t","u","s">>,
       <<"r","u","n","n","i","n","g">>,
       <<"d","o","w","n","t","i","m","e">>,
       <<"o","e","e">>,
       <<"c","y","c","l","e"," ","t","i","m","e">>,
       <<"h","o","w"," ","m","a","n","y">>,
       <<"p","r","o","d","u","c","t","i","o","n">>,
       <<"o","u","t","p","u","t">>,
       <<"r","a","t","e">> >>

\* self.intent_patterns[ManufacturingIntent.MAINTENANCE_REQUEST]
Patterns_MAINTENANCE_REQUEST ==
    << <<"m","a","i","n","t","e","n","a","n","c","e">>,
       <<"r","e","p","a","i","r">>,
       <<"b","r","o","k","e","n">>,
       <<"i","s","s","u","e">>,
       <<"p","r","o","b","l","e","m">>,
       <<"b","e","a","r","i","n","g">>,
       <<"s","e","a","l">>,
       <<"m","o","t","o","r">>,
       <<"h","e","l","p"," ","w","i","t","h">> >>

\* self.intent_patterns[ManufacturingIntent.QUALITY_CHECK]
Patterns_QUALITY_CHECK ==
    << <<"q","u","a","l","i","t","y">>,
       <<"c","h","e","c","k">>,
       <<"m","e","a","s","u","r","e">>,
       <<"i","n","s","p","e","c","t">>,
       <<"s","p","e","c","i","f","i","c","a","t","i","o","n">>,
       <<"d","i","m","e","n","s","i","o","n">>,
       <<"t","o","l","e","r","a","n","c","e">>,
       <<"d","e","f","e","c","t">> >>

\* self.intent_patterns[ManufacturingIntent.SAFETY_QUERY]
Patterns_SAFETY_QUERY ==
    << <<"s","a","f","e","t","y">>,
       <<"s","a","f","e">>,
       <<"g","u","a","r","d">>,
       <<"d","a","n","g","e","r">>,
       <<"w","a","r","n","i","n","g">>,
       <<"h","a","z","a","r","d">>,
       <<"p","p","e">>,
       <<"p","e","r","s","o","n","a","l"," ","p","r","o","t","e","c","t","i","v","e">> >>

\* self.entity_patterns["machine_id"]
MachineIdTriggers ==
    << <<"p","r","e","s","s">>,
       <<"p","u","m","p">>,
       <<"m","o","t","o","r">>,
       <<"c","o","m","p","r","e","s","s","o","r">>,
       <<"l","i","n","e">> >>

\* self.entity_patterns["part_number"]
PartNumberTriggers ==
    << <<"p","a","r","t">>,
       <<"c","o","m","p","o","n","e","n","t">>,
       <<"p","r","o","d","u","c","t">>,
       <<"i","t","e","m">> >>

\* variant: "safety" is not a forbidden keyword
forbidden_keywords_without_safety ==
    << <<"b","y","p","a","s","s">>,
       <<"d","i","s","a","b","l","e">>,
       <<"r","e","m","o","v","e">>,
       <<"i","g","n","o","r","e">>,
       <<"o","v","e","r","r","i","d","e">>,
       <<"i","n","t","e","r","l","o","c","k">>,
       <<"g","u","a","r","d">>,
       <<"s","e","n","s","o","r">>,
       <<"a","l","a","r","m">> >>

\* self.forbidden_keywords
forbidden_keywords ==
    << <<"b","y","p","a","s","s">>,
       <<"d","i","s","a","b","l","e">>,
       <<"r","e","m","o","v","e">>,
       <<"i","g","n","o","r","e">>,
       <<"o","v","e","r","r","i","d","e">>,
       <<"s","a","f","e","t","y">>,
       <<"i","n","t","e","r","l","o","c","k">>,
       <<"g","u","a","r","d">>,
       <<"s","e","n","s","o","r">>,
       <<"a","l","a","r","m">> >>

\* self.confirmation_keywords
confirmation_keywords ==
    << <<"e","m","e","r","g","e","n","c","y">>,
       <<"s","t","o","p">>,
       <<"s","h","u","t","d","o","w","n">>,
       <<"p","o","w","e","r"," ","o","f","f">>,
       <<"r","e","s","t","a","r","t">> >>

\* the words sanitize_response looks for in the lower-cased response
ProceduralWords ==
    << <<"p","r","o","c","e","d","u","r","e">>,
       <<"s","t","e","p">>,
       <<"d","o">> >>

\* self.safety_standards["lockout_tagout"]
Standard_lockout_tagout ==
    <<"O","S","H","A"," ","1","9","1","0",".","1","4","7"," ","-"," ","L","o","c","k","o","u","t","/","T","a","g","o","u","t">>

\* self.safety_standards["guards"]
Standard_guards ==
    <<"O","S","H","A"," ","1","9","1","0",".","2","1","2"," ","-"," ","G","e","n","e","r","a","l"," ","R","e","q","u","i","r","e","m","e","n","t","s"," ","f","o","r"," ","S","a","f","e","t","y">>

\* self.safety_standards["ppe"]
Standard_ppe ==
    <<"O","S","H","A"," ","1","9","1","0"," ","S","u","b","p","a","r","t"," ","I"," ","-"," ","P","e","r","s","o","n","a","l"," ","P","r","o","t","e","c","t","i","v","e"," ","E","q","u","i","p","m","e","n","t">>

\* self.safety_standards["emergency"]
Standard_emergency ==
    <<"A","N","S","I"," ","Z","5","3","5",".","1"," ","-"," ","S","a","f","e","t","y"," ","C","o","l","o","r"," ","C","o","d","e">>

\* f"Response contains unsafe keyword: '{keyword}'" up to the keyword
ForbiddenReasonPrefix ==
    <<"R","e","s","p","o","n","s","e"," ","c","o","n","t","a","i","n","s"," ","u","n","s","a","f","e"," ","k","e","y","w","o","r","d",":"," ","'">>

\* the explanation of REQUIRES_CONFIRMATION
ConfirmationReason ==
    <<"E","m","e","r","g","e","n","c","y"," ","a","c","t","i","o","n"," ","r","e","q","u","i","r","e","s"," ","h","u","m","a","n"," ","c","o","n","f","i","r","m","a","t","i","o","n">>

\* f"\n\nSafety Note: See {standard}" up to the standard
StandardDisclaimerPrefix ==
    <<"\n","\n","S","a","f","e","t","y"," ","N","o","t","e",":"," ","S","e","e"," ">>

\* the generic disclaimer
GenericDisclaimer ==
    <<"\n","\n","A","l","w","a","y","s"," ","f","o","l","l","o","w"," ","e","s","t","a","b","l","i","s","h","e","d"," ","p","r","o","c","e","d","u","r","e","s"," ","a","n","d"," ","s","a","f","e","t","y"," ","p","r","o","t","o","c","o","l","s",".">>

\* vocabulary of the queries: an upper-case letter, two SOP_LOOKUP triggers,
\* a PRODUCTION_STATUS trigger, a word that is both a MAINTENANCE_REQUEST and a
\* machine_id trigger, a machine_id trigger followed by a number, a number
QueryPhrases ==
    << <<"S","h","o","w">>,
       <<"s","t","e","p","s">>,
       <<"s","t","a","t","u","s">>,
       <<"m","o","t","o","r">>,
       <<"p","r","e","s","s"," ","1","2">>,
       <<"7">> >>

\* vocabulary of the responses: two forbidden keywords (the later-listed one
\* in lower case, the earlier one capitalised), a confirmation keyword, a
\* procedural word, a neutral word
ResponseWords ==
    << <<"B","y","p","a","s","s">>,
       <<"i","n","t","e","r","l","o","c","k">>,
       <<"s","t","o","p">>,
       <<"s","t","e","p","s">>,
       <<"o","k">> >>

\* vocabulary of the queries handed to check_safety
ContextWords ==
    << <<"B","y","p","a","s","s">>,
       <<"s","t","o","p">>,
       <<"s","t","a","t","u","s">> >>

(* --------------------------- IntentClassifier -------------------------- *)

\* class ManufacturingIntent, in declaration order
ManufacturingIntent ==
    <<"SOP_LOOKUP", "PRODUCTION_STATUS", "MAINTENANCE_REQUEST",
      "QUALITY_CHECK", "SAFETY_QUERY", "WORK_ORDER", "PART_SEARCH",
      "TRAINING", "UNKNOWN">>

IntentSet == {ManufacturingIntent[i] : i \in 1..Len(ManufacturingIntent)}

\* self.intent_patterns
intent_patterns ==
    ("SOP_LOOKUP" :> Patterns_SOP_LOOKUP) @@
    ("PRODUCTION_STATUS" :> Patterns_PRODUCTION_STATUS) @@
    ("MAINTENANCE_REQUEST" :> Patterns_MAINTENANCE_REQUEST) @@
    ("QUALITY_CHECK" :> Patterns_QUALITY_CHECK) @@
    ("SAFETY_QUERY" :> Patterns_SAFETY_QUERY)

\* self.entity_patterns
entity_patterns ==
    ("machine_id" :> MachineIdTriggers) @@
    ("part_number" :> PartNumberTriggers)

\* intent_scores after the scoring loop: every intent starts at 0 and gains
\* one per keyword of its pattern list that occurs in query_lower
intent_scores(query_lower) ==
    [intent \in IntentSet |->
        IF intent \in DOMAIN intent_patterns
        THEN Cardinality({k \in 1..Len(intent_patterns[intent]) :
                             Contains(intent_patterns[intent][k], query_lower)})
        ELSE 0]

\* variant: a candidate with an equal key also replaces the running best
ReplacesOnTie(candidate_key, best_key) == candidate_key >= best_key

\* max(): a later candidate replaces the running best only if its key is
\* strictly greater
Replaces(candidate_key, best_key) == candidate_key > best_key

RECURSIVE MaxFrom(_, _, _)
MaxFrom(scores, i, best) ==
    IF i > Len(ManufacturingIntent)
    THEN best
    ELSE MaxFrom(scores, i + 1,
                 IF Replaces(scores[ManufacturingIntent[i]], scores[best])
                 THEN ManufacturingIntent[i]
                 ELSE best)

\* max(intent_scores, key=intent_scores.get), iterating in enumeration order
best_intent(scores) == MaxFrom(scores, 2, ManufacturingIntent[1])

\* variant: the denominator is not floored at 1
confidence_unfloored(scores, best) ==
    [num |-> scores[best],
     den |-> SumOver(scores, ManufacturingIntent, 1)]

\* intent_scores[best_intent] / max(sum(intent_scores.values()), 1),
\* kept as an exact fraction num/den
confidence(scores, best) ==
    [num |-> scores[best],
     den |-> Max2(SumOver(scores, ManufacturingIntent, 1), 1)]

\* min(1.0, confidence)
MinOne(c) == IF c.den < c.num THEN [num |-> 1, den |-> 1] ELSE c

\* confidence < 0.5
BelowHalf(c) == 2 * c.num < c.den

EmptyDict == [k \in {} |-> <<>>]

\* entities[key] = value
DictSet(d, key, value) ==
    [k \in (DOMAIN d) \cup {key} |-> IF k = key THEN value ELSE d[k]]

\* the inner loop over enumerate(words): the token after the first token
\* that contains machine_keyword and is followed by a token with a digit
RECURSIVE ScanWords(_, _, _)
ScanWords(machine_keyword, words, i) ==
    IF i > Len(words)
    THEN None
    ELSE IF Contains(machine_keyword, words[i]) /\ i + 1 <= Len(words)
            /\ HasDigit(words[i + 1])
         THEN Some(words[i + 1])
         ELSE ScanWords(machine_keyword, words, i + 1)

\* the outer loop over self.entity_patterns["machine_id"]; the break of the
\* inner loop does not leave this loop
RECURSIVE ExtractFrom(_, _, _)
ExtractFrom(query, k, entities) ==
    IF k > Len(entity_patterns["machine_id"])
    THEN entities
    ELSE LET machine_keyword == entity_patterns["machine_id"][k]
             found == IF Contains(machine_keyword, query)
                      THEN ScanWords(machine_keyword, split(query), 1)
                      ELSE None
         IN  ExtractFrom(query, k + 1,
                         IF found # None
                         THEN DictSet(entities, "machine_id", found[1])
                         ELSE entities)

\* IntentClassifier._extract_entities
extract_entities(query) == ExtractFrom(query, 1, EmptyDict)

\* variant: the threshold 0.5 itself asks for clarification
clarification_needed_inclusive(conf, entities) ==
    2 * conf.num <= conf.den \/ DOMAIN entities = {}

\* clarification_needed = confidence < 0.5 or len(entities) == 0
clarification_needed(conf, entities) ==
    BelowHalf(conf) \/ DOMAIN entities = {}

\* variant: the question is chosen without looking at clarification_needed
clarification_question_always(needed, best) ==
    IF best = "SOP_LOOKUP" THEN Some("Which machine or process?")
    ELSE IF best = "MAINTENANCE_REQUEST"
         THEN Some("Which equipment needs repair?")
         ELSE None

\* the clarification question chosen under `if clarification_needed:`
clarification_question(needed, best) ==
    IF needed
    THEN IF best = "SOP_LOOKUP" THEN Some("Which machine or process?")
         ELSE IF best = "MAINTENANCE_REQUEST"
              THEN Some("Which equipment needs repair?")
              ELSE None
    ELSE None

\* IntentClassifier.classify
classify(query) ==
    LET query_lower == lower(query)
        scores      == intent_scores(query_lower)
        best        == best_intent(scores)
        conf        == confidence(scores, best)
        entities    == extract_entities(query_lower)
        needed      == clarification_needed(conf, entities)
    IN  [intent                 |-> best,
         confidence             |-> MinOne(conf),
         entities               |-> entities,
         clarification_needed   |-> needed,
         clarification_question |-> clarification_question(needed, best)]

(* --------------------------- SafetyGuardrails -------------------------- *)

\* self.safety_standards
safety_standards ==
    ("lockout_tagout" :> Standard_lockout_tagout) @@
    ("guards" :> Standard_guards) @@
    ("ppe" :> Standard_ppe) @@
    ("emergency" :> Standard_emergency)

\* the first keyword of a list, in list order, that occurs in text
RECURSIVE FirstMatch(_, _, _)
FirstMatch(keywords, text, i) ==
    IF i > Len(keywords)
    THEN None
    ELSE IF Contains(keywords[i], text)
         THEN Some(keywords[i])
         ELSE FirstMatch(keywords, text, i + 1)

\* variant: the confirmation keywords are scanned before the forbidden ones
check_safety_confirmation_first(q, r) ==
    LET response_lower == lower(r)
        forbidden      == FirstMatch(forbidden_keywords, response_lower, 1)
        confirm        == FirstMatch(confirmation_keywords, response_lower, 1)
    IN  IF confirm # None
        THEN [level       |-> "REQUIRES_CONFIRMATION",
              explanation |-> Some(ConfirmationReason)]
        ELSE IF forbidden # None
             THEN [level       |-> "FORBIDDEN",
                   explanation |-> Some(ForbiddenReasonPrefix \o forbidden[1]
                                        \o <<"'">>)]
             ELSE [level |-> "ALLOWED", explanation |-> None]

\* variant: the query is scanned together with the response
check_safety_scans_query(q, r) ==
    LET response_lower == lower(q \o <<" ">> \o r)
        forbidden      == FirstMatch(forbidden_keywords, response_lower, 1)
        confirm        == FirstMatch(confirmation_keywords, response_lower, 1)
    IN  IF forbidden # None
        THEN [level       |-> "FORBIDDEN",
              explanation |-> Some(ForbiddenReasonPrefix \o forbidden[1]
                                   \o <<"'">>)]
        ELSE IF confirm # None
             THEN [level       |-> "REQUIRES_CONFIRMATION",
                   explanation |-> Some(ConfirmationReason)]
             ELSE [level |-> "ALLOWED", explanation |-> None]

\* SafetyGuardrails.check_safety
check_safety(q, r) ==
    LET response_lower == lower(r)
        forbidden      == FirstMatch(forbidden_keywords, response_lower, 1)
        confirm        == FirstMatch(confirmation_keywords, response_lower, 1)
    IN  IF forbidden # None
        THEN [level       |-> "FORBIDDEN",
              explanation |-> Some(ForbiddenReasonPrefix \o forbidden[1]
                                   \o <<"'">>)]
        ELSE IF confirm # None
             THEN [level       |-> "REQUIRES_CONFIRMATION",
                   explanation |-> Some(ConfirmationReason)]
             ELSE [level |-> "ALLOWED", explanation |-> None]

\* truthiness of an Optional[str]: neither None nor ""
Truthy(topic) == topic # None /\ topic[1] # ""

\* variant: the procedural-word branch is tried before the topic branch
sanitize_response_generic_first(r, topic) ==
    IF \E w \in 1..Len(ProceduralWords) :
           Contains(ProceduralWords[w], lower(r))
    THEN r \o GenericDisclaimer
    ELSE IF Truthy(topic) /\ topic[1] \in DOMAIN safety_standards
         THEN r \o StandardDisclaimerPrefix \o safety_standards[topic[1]]
         ELSE r

\* SafetyGuardrails.sanitize_response
sanitize_response(r, topic) ==
    IF Truthy(topic) /\ topic[1] \in DOMAIN safety_standards
    THEN r \o StandardDisclaimerPrefix \o safety_standards[topic[1]]
    ELSE IF \E w \in 1..Len(ProceduralWords) :
                Contains(ProceduralWords[w], lower(r))
         THEN r \o GenericDisclaimer
         ELSE r

(* ------------------------------ inputs --------------------------------- *)

SetOf(seq) == {seq[i] : i \in 1..Len(seq)}

RECURSIVE Join(_)
Join(words) ==
    IF words = <<>> THEN <<>>
    ELSE IF Len(words) = 1 THEN words[1]
         ELSE words[1] \o <<" ">> \o Join(Tail(words))

\* every text of at most n entries of a vocabulary, joined by single spaces
Texts(vocabulary, n) ==
    { Join([i \in 1..Len(p) |-> vocabulary[p[i]]]) :
        p \in UNION { [1..k -> 1..Len(vocabulary)] : k \in 0..n } }

Queries == Texts(QueryPhrases, MaxQueryPhrases)

Responses == Texts(ResponseWords, MaxResponseWords)

\* queries handed to check_safety: empty, neutral, and ones that themselves
\* hold a forbidden or a confirmation keyword
ContextQueries == {<<>>} \cup SetOf(ContextWords)

SafetyTopics ==
    { None, Some(""), Some("lockout_tagout"), Some("guards"), Some("ppe"),
      Some("emergency"), Some("torque") }

(* --------------------------- state machine ----------------------------- *)

VARIABLES
    pc,            \* which call has been made: "idle", "classified",
                   \* "checked", "sanitized", "rechecked"
    query,         \* the query argument of the call
    response,      \* the response argument of the call
    safety_topic,  \* the safety_topic argument of sanitize_response
    result,        \* Optional: what classify returned
    safety,        \* Optional: what check_safety returned
    output         \* Optional: what sanitize_response returned

vars == <<pc, query, response, safety_topic, result, safety, output>>

Init ==
    /\ pc = "idle"
    /\ query = <<>>
    /\ response = <<>>
    /\ safety_topic = None
    /\ result = None
    /\ safety = None
    /\ output = None

\* a caller invokes classify(q)
Classify ==
    /\ pc = "idle"
    /\ \E q \in Queries :
        /\ query' = q
        /\ result' = Some(classify(q))
    /\ pc' = "classified"
    /\ UNCHANGED <<response, safety_topic, safety, output>>

\* a caller invokes check_safety(q, r)
CheckSafety ==
    /\ pc = "idle"
    /\ \E q \in ContextQueries, r \in Responses :
        /\ query' = q
        /\ response' = r
        /\ safety' = Some(check_safety(q, r))
    /\ pc' = "checked"
    /\ UNCHANGED <<safety_topic, result, output>>

\* a caller invokes sanitize_response(r, topic)
SanitizeResponse ==
    /\ pc = "idle"
    /\ \E r \in Responses, topic \in SafetyTopics :
        /\ response' = r
        /\ safety_topic' = topic
        /\ output' = Some(sanitize_response(r, topic))
    /\ pc' = "sanitized"
    /\ UNCHANGED <<query, result, safety>>

\* a caller that annotated first now gates the annotated text:
\* check_safety(q, sanitize_response(r, topic))
CheckSanitized ==
    /\ pc = "sanitized"
    /\ \E q \in ContextQueries :
        /\ query' = q
        /\ safety' = Some(check_safety(q, output[1]))
    /\ pc' = "rechecked"
    /\ UNCHANGED <<response, safety_topic, result, output>>

Next == Classify \/ CheckSafety \/ SanitizeResponse \/ CheckSanitized

Spec == Init /\ [][Next]_vars

(* ------------------------- shared vocabulary --------------------------- *)

Classified == pc = "classified"

\* a check_safety call has returned, on the response or on the sanitized text
Checked == pc \in {"checked", "rechecked"}

Sanitized == pc \in {"sanitized", "rechecked"}

\* the text the last check_safety call was given as its response
CheckedText == IF pc = "rechecked" THEN output[1] ELSE response

\* positions, in list order, of the keywords of a list that occur in text
Hits(keywords, text) ==
    {i \in 1..Len(keywords) : Contains(keywords[i], lower(text))}

Least(S) == CHOOSE i \in S : \A j \in S : i <= j

\* per intent, the number of its trigger keywords that occur in the
\* lower-cased query
RawScores(q) ==
    LET query_lower == lower(q)
    IN  [intent \in IntentSet |->
            IF intent \in DOMAIN intent_patterns
            THEN Cardinality({kw \in SetOf(intent_patterns[intent]) :
                                 Contains(kw, query_lower)})
            ELSE 0]

NoTrigger(q) ==
    LET query_lower == lower(q)
    IN  \A intent \in DOMAIN intent_patterns :
            \A kw \in SetOf(intent_patterns[intent]) :
                ~Contains(kw, query_lower)

IntentIndex(intent) ==
    CHOOSE i \in 1..Len(ManufacturingIntent) : ManufacturingIntent[i] = intent

(* ------------------------------- claims -------------------------------- *)

\* C1: whenever the lower-cased response contains a forbidden keyword,
\* check_safety returns FORBIDDEN (confirmation keywords and the query
\* notwithstanding) and the explanation names the first keyword, in the order
\* of forbidden_keywords, that occurs in the response.
C1_ForbiddenFirstInListOrder ==
    Checked =>
        LET hits == Hits(forbidden_keywords, CheckedText)
        IN  hits # {} =>
              /\ safety[1].level = "FORBIDDEN"
              /\ safety[1].explanation =
                   Some(ForbiddenReasonPrefix
                        \o forbidden_keywords[Least(hits)] \o <<"'">>)

\* a response holding a confirmation keyword and two forbidden keywords, the
\* later-listed one first in the text, was refused under a non-empty query
C1_Witness ==
    /\ pc = "checked"
    /\ query # <<>>
    /\ Hits(confirmation_keywords, response \o query) # {}
    /\ response = Join(<<ResponseWords[2], ResponseWords[1]>>)
    /\ Cardinality(Hits(forbidden_keywords, response)) = 2
    /\ safety[1].level = "FORBIDDEN"

\* C2: for a query with no trigger keyword of any intent (the empty query
\* included) classify returns UNKNOWN with confidence 0 and
\* clarification_needed true.
C2_DegenerateIsUnknown ==
    (Classified /\ NoTrigger(query)) =>
        /\ result[1].intent = "UNKNOWN"
        /\ result[1].confidence.num = 0
        /\ result[1].clarification_needed

\* C3: the returned intent has the maximum raw score, and among the intents
\* sharing that maximum it is the one declared first in ManufacturingIntent.
C3_MaxScoreFirstDeclared ==
    Classified =>
        LET best == result[1].intent
            raw  == RawScores(query)
        IN  /\ \A intent \in IntentSet : raw[intent] <= raw[best]
            /\ \A i \in 1..(IntentIndex(best) - 1) :
                  raw[ManufacturingIntent[i]] < raw[best]

\* two intents tie on a nonzero maximum and a later-declared one lost
C3_Witness ==
    /\ Classified
    /\ LET raw == RawScores(query)
       IN  /\ raw[result[1].intent] > 0
           /\ \E intent \in IntentSet :
                 /\ IntentIndex(intent) > IntentIndex(result[1].intent)
                 /\ raw[intent] = raw[result[1].intent]

\* the machine_id a single trigger produces: the token after the first token
\* that contains the trigger and is followed by a token holding a digit
TriggerValue(trigger, q) ==
    IF Contains(trigger, lower(q))
    THEN ScanWords(trigger, split(lower(q)), 1)
    ELSE None

\* C4: machine_id is the value of the earliest trigger, in configured order,
\* that produces one; later triggers never replace it.
C4_FirstTriggerWins ==
    Classified =>
        LET producing == {k \in 1..Len(MachineIdTriggers) :
                             TriggerValue(MachineIdTriggers[k], query) # None}
        IN  IF producing = {}
            THEN DOMAIN result[1].entities = {}
            ELSE /\ DOMAIN result[1].entities = {"machine_id"}
                 /\ result[1].entities["machine_id"] =
                      TriggerValue(MachineIdTriggers[Least(producing)],
                                   query)[1]

\* C5: with no forbidden keyword in the response, check_safety returns
\* REQUIRES_CONFIRMATION with the one fixed explanation when a confirmation
\* keyword occurs and ALLOWED with no explanation otherwise, and no other
\* query would have changed that result.
C5_ConfirmationOrAllowed ==
    (Checked /\ Hits(forbidden_keywords, CheckedText) = {}) =>
        /\ IF Hits(confirmation_keywords, CheckedText) # {}
           THEN /\ safety[1].level = "REQUIRES_CONFIRMATION"
                /\ safety[1].explanation = Some(ConfirmationReason)
           ELSE /\ safety[1].level = "ALLOWED"
                /\ safety[1].explanation = None
        /\ \A q \in ContextQueries : check_safety(q, CheckedText) = safety[1]

\* a response with a confirmation keyword and no forbidden one was held for
\* confirmation although the query holds a forbidden keyword
C5_Witness ==
    /\ pc = "checked"
    /\ Hits(forbidden_keywords, query) # {}
    /\ Hits(forbidden_keywords, response) = {}
    /\ Hits(confirmation_keywords, response) # {}
    /\ safety[1].level = "REQUIRES_CONFIRMATION"

\* C6: clarification_needed is true exactly when the returned confidence is
\* below 1/2 or no entity was extracted; a query without trigger keywords has
\* confidence 0 and is flagged even with a machine_id.
C6_ClarificationPolicy ==
    Classified =>
        LET r == result[1]
        IN  /\ r.clarification_needed <=>
                  (2 * r.confidence.num < r.confidence.den
                   \/ DOMAIN r.entities = {})
            /\ NoTrigger(query) =>
                  r.confidence.num = 0 /\ r.clarification_needed

\* confidence exactly 1/2 with a machine_id: not flagged
C6_Witness ==
    /\ Classified
    /\ 2 * result[1].confidence.num = result[1].confidence.den
    /\ "machine_id" \in DOMAIN result[1].entities
    /\ ~result[1].clarification_needed

\* C7: a clarification question is present only when clarification is needed
\* and the intent is SOP_LOOKUP or MAINTENANCE_REQUEST, with that intent's
\* fixed question; otherwise it is None.
C7_QuestionOnlyForTwoIntents ==
    Classified =>
        LET r == result[1]
        IN  r.clarification_question # None =>
              /\ r.clarification_needed
              /\ \/ /\ r.intent = "SOP_LOOKUP"
                    /\ r.clarification_question =
                         Some("Which machine or process?")
                 \/ /\ r.intent = "MAINTENANCE_REQUEST"
                    /\ r.clarification_question =
                         Some("Which equipment needs repair?")

\* a maintenance request needing clarification got the repair question
C7_Witness ==
    /\ Classified
    /\ result[1].intent = "MAINTENANCE_REQUEST"
    /\ result[1].clarification_needed
    /\ result[1].clarification_question =
         Some("Which equipment needs repair?")

\* C8: the returned confidence is the raw score of the returned intent over
\* max(1, sum of all raw scores), and lies in [0,1].
C8_ConfidenceIsShare ==
    Classified =>
        LET c   == result[1].confidence
            raw == RawScores(query)
        IN  /\ c.den > 0
            /\ c.num * Max2(1, SumOver(raw, ManufacturingIntent, 1))
                 = raw[result[1].intent] * c.den
            /\ 0 <= c.num
            /\ c.num <= c.den

\* a confidence strictly between 0 and 1
C8_Witness ==
    /\ Classified
    /\ 0 < result[1].confidence.num
    /\ result[1].confidence.num < result[1].confidence.den

\* the disclaimer the documented rule selects for a response and topic
ExpectedDisclaimer(r, topic) ==
    IF topic # None /\ topic[1] \in DOMAIN safety_standards
    THEN StandardDisclaimerPrefix \o safety_standards[topic[1]]
    ELSE IF Hits(ProceduralWords, r) # {}
         THEN GenericDisclaimer
         ELSE <<>>

\* C9: sanitize_response returns response + D, D being the standards
\* disclaimer for a known topic (even when a procedural word occurs), else the
\* generic disclaimer when a procedural word occurs, else empty; the response
\* is an unaltered prefix of the output.
C9_AppendsOneDisclaimer ==
    Sanitized =>
        /\ output[1] = response \o ExpectedDisclaimer(response, safety_topic)
        /\ Len(output[1]) >= Len(response)
        /\ SubSeq(output[1], 1, Len(response)) = response

\* a known topic together with a procedural word: the standards disclaimer
C9_Witness ==
    /\ pc = "sanitized"
    /\ safety_topic = Some("lockout_tagout")
    /\ Hits(ProceduralWords, response) # {}
    /\ output[1] = response \o StandardDisclaimerPrefix
                     \o Standard_lockout_tagout

\* C10: when sanitize_response appended a disclaimer, check_safety on its
\* output returns FORBIDDEN; so a sanitized text is ALLOWED only if
\* sanitize_response left the response unchanged.
C10_SanitizedTextIsForbidden ==
    pc = "rechecked" =>
        /\ output[1] # response => safety[1].level = "FORBIDDEN"
        /\ safety[1].level = "ALLOWED" => output[1] = response

\* a response that check_safety allows is refused once annotated
C10_Witness ==
    /\ pc = "rechecked"
    /\ output[1] # response
    /\ check_safety(query, response).level = "ALLOWED"
    /\ safety[1].level = "FORBIDDEN"

====
